---- MODULE Spec2Model ----
(***************************************************************************)
(* Model of the adaptive temperature controller of gpu_fan_controller.py:  *)
(* the closure returned by temperature_control(adl, target_temp, min_fan,  *)
(* max_fan) and its captured variables.                                    *)
(*                                                                         *)
(* Units.  get_temperature returns ADLTemperature.Temperature / 1000.0, a  *)
(* double in degrees Celsius.  The model keeps the reading in              *)
(* millidegrees, as the driver reports it, and scales the thresholds of    *)
(* the code by Milli.  Readings are taken on the half-degree grid, where   *)
(* the doubles of the code and their products with 2.5, 1.5 and 0.8 are    *)
(* exact or truncate to the same integer as the exact product; the one     *)
(* product that does not (n * 0.7) is modelled with its double rounding.   *)
(* Fan speeds are integer percentages.                                     *)
(***************************************************************************)
EXTENDS Integers, Sequences, FiniteSets, TLC

VARIABLES
    target_temp,      \* closure parameter, degrees Celsius
    min_fan,          \* closure parameter, percent
    max_fan,          \* closure parameter, percent
    last_fan_speed,   \* nonlocal of get_fan_speed_for_temp
    temp_history,     \* nonlocal: sequence of readings, millidegrees
    aggressive_mode,  \* nonlocal
    stable_counter,   \* nonlocal
    call,             \* activation record of the most recent call
    received,         \* every available reading fed so far, in order
    env,              \* what the sensor of this session can deliver
    current_curve,    \* the FanCurve in use, or None
    config_file,      \* config/fan_curve.json
    curve_call,       \* the most recent FanCurve operation of a curve session
    given,            \* name and points handed to FanCurve or typed in the dialog
    curve_mode,       \* nonlocal of monitor_in_system_tray
    temp_limit_mode,  \* nonlocal of monitor_in_system_tray
    temp,             \* update_icon: the reading of this iteration, or None
    fan_speed,        \* update_icon: the fan speed read in this iteration
    tray_new_fan,     \* update_icon: new_fan, the speed it computed last
    fed,              \* what this iteration handed its reading to
    hw_fan,           \* the fan speed the adapter is set to, or Auto
    overridden,       \* a manual override returned, no mode switched on since
    pc                \* where each thread of the monitor is

ctlVars == <<target_temp, min_fan, max_fan, last_fan_speed, temp_history,
             aggressive_mode, stable_counter, call, received, env>>

curveVars == <<current_curve, config_file, curve_call, given>>

trayVars == <<curve_mode, temp_limit_mode, temp, fan_speed, tray_new_fan,
              fed, hw_fan, overridden, pc>>

vars == <<ctlVars, curveVars, trayVars>>

(***************************************************************************)
(* Bounds of the model.                                                    *)
(***************************************************************************)
\* Samples fed to a session that may change reading at every tick.
MaxSamples == 11

\* Samples fed to a session whose reading changes at most MaxChanges times.
MaxRun == 20

\* Points of the enumerated lists handed to FanCurve.
MaxPoints == 3

\* Readings the sensor delivers to one closure of the tray monitor.
MaxTraySamples == 2

MaxChanges == 2

(***************************************************************************)
(* Constants of the program.                                               *)
(***************************************************************************)
Milli == 1000

\* get_temperature found no reading.
None == -1

\* disable_fan_control: the driver sets the fan speed.
Auto == -1

history_max_size == 10

stable_threshold == 2

stable_required == 6

(***************************************************************************)
(* Python builtins used by the closure.                                    *)
(***************************************************************************)
Abs(x) == IF x < 0 THEN -x ELSE x

Max2(a, b) == IF a >= b THEN a ELSE b

Min2(a, b) == IF a <= b THEN a ELSE b

Range(s) == {s[i] : i \in 1..Len(s)}

MaxOf(s) == CHOOSE m \in Range(s) : \A x \in Range(s) : x <= m

MinOf(s) == CHOOSE m \in Range(s) : \A x \in Range(s) : m <= x

\* Mutant of IntGain: round(d * g), to the nearest integer, instead of int.
IntGain_Rounded(d, g10) == (d * g10 + 5 * Milli) \div (10 * Milli)

\* int(d * g) for a temperature difference of d >= 0 millidegrees and a gain
\* of g10 / 10 percent per degree.
IntGain(d, g10) == (d * g10) \div (10 * Milli)

\* int(n * 1.5): exact in doubles.
IntTimes15(n) == (n * 15) \div 10

\* int(n * 0.5): exact in doubles.
IntTimes05(n) == (n * 5) \div 10

\* int(n * 0.7): the double nearest 0.7 lies below 0.7, and for these n < 400
\* the rounded product falls just below the integer 7n/10.
IntTimes07(n) ==
    IF n \in {90, 170, 180, 330, 340, 350, 360}
    THEN (n * 7) \div 10 - 1
    ELSE (n * 7) \div 10

(***************************************************************************)
(* The steps of get_fan_speed_for_temp, in the order of the code.          *)
(***************************************************************************)
\* Mutant of AppendHistory: pop() instead of pop(0) drops the newest reading.
AppendHistory_PopNewest(h, t) ==
    LET a == Append(h, t)
    IN  IF Len(a) > history_max_size THEN SubSeq(a, 1, Len(a) - 1) ELSE a

\* temp_history.append(current_temp), then pop(0) beyond history_max_size.
AppendHistory(h, t) ==
    LET a == Append(h, t)
    IN  IF Len(a) > history_max_size THEN Tail(a) ELSE a

\* Mutant of Evaluated: the rule is applied from the third reading on.
Evaluated_Early(h) == Len(h) >= 3

\* len(temp_history) >= 4: the stability rule is evaluated.
Evaluated(h) == Len(h) >= 4

\* temp_variation = max(temp_history) - min(temp_history)
Variation(h) == MaxOf(h) - MinOf(h)

\* Mutant of IsStable: the variation of the history is not looked at.
IsStable_NoVariation(t, target, variation) ==
    Abs(t - target * Milli) < 3 * Milli

\* abs(current_temp - target_temp) < 3.0 and temp_variation < stable_threshold
IsStable(t, target, variation) ==
    /\ Abs(t - target * Milli) < 3 * Milli
    /\ variation < stable_threshold * Milli

\* Mutant of IsDisturbed: both conditions are required instead of either.
IsDisturbed_Both(t, target, variation) ==
    /\ Abs(t - target * Milli) > 5 * Milli
    /\ variation > 4 * Milli

\* abs(current_temp - target_temp) > 5.0 or temp_variation > 4.0
IsDisturbed(t, target, variation) ==
    \/ Abs(t - target * Milli) > 5 * Milli
    \/ variation > 4 * Milli

\* Mutant of CounterAfter: a stable sample counts twice.
CounterAfter_Doubling(h, t, target, counter) ==
    IF ~Evaluated(h) THEN counter
    ELSE IF IsStable(t, target, Variation(h)) THEN counter + 2
    ELSE 0

\* stable_counter after the stability rule; h is the history with the sample.
CounterAfter(h, t, target, counter) ==
    IF ~Evaluated(h) THEN counter
    ELSE IF IsStable(t, target, Variation(h)) THEN counter + 1
    ELSE 0

\* Mutant of ModeAfter: the switch to gentle waits for the counter to exceed
\* stable_required.
ModeAfter_Late(h, t, target, aggressive, counter1) ==
    IF ~Evaluated(h) THEN aggressive
    ELSE IF IsStable(t, target, Variation(h))
         THEN IF counter1 > stable_required /\ aggressive THEN FALSE
              ELSE aggressive
         ELSE IF ~aggressive /\ IsDisturbed(t, target, Variation(h)) THEN TRUE
              ELSE aggressive

\* aggressive_mode after the stability rule; counter1 is the counter after it.
ModeAfter(h, t, target, aggressive, counter1) ==
    IF ~Evaluated(h) THEN aggressive
    ELSE IF IsStable(t, target, Variation(h))
         THEN IF counter1 >= stable_required /\ aggressive THEN FALSE
              ELSE aggressive
         ELSE IF ~aggressive /\ IsDisturbed(t, target, Variation(h)) THEN TRUE
              ELSE aggressive

\* Mutant of over_target_gain: the gains of the two modes are exchanged.
over_target_gain_Exchanged(aggressive) == IF aggressive THEN 15 ELSE 25

\* Control parameters of the mode; the gains in tenths of a percent per degree.
over_target_gain(aggressive) == IF aggressive THEN 25 ELSE 15

under_target_gain(aggressive) == IF aggressive THEN 15 ELSE 8

min_adjustment(aggressive) == IF aggressive THEN 3 ELSE 1

\* temp_diff > 0: adjustment = max(min_adjustment, int(temp_diff * over_target_gain))
OverBase(aggressive, diff) ==
    Max2(min_adjustment(aggressive), IntGain(diff, over_target_gain(aggressive)))

\* Mutant of Climbing: a reading equal to the one 2 samples ago counts too.
Climbing_NotFalling(h) == Len(h) >= 3 /\ h[Len(h)] >= h[Len(h) - 2]

\* len(temp_history) >= 3 and temp_history[-1] > temp_history[-3]
Climbing(h) == Len(h) >= 3 /\ h[Len(h)] > h[Len(h) - 2]

\* adjustment = int(adjustment * 1.5) when climbing
OverAdjustment(base, h) == IF Climbing(h) THEN IntTimes15(base) ELSE base

\* temp_diff <= 0: adjustment = max(min_adjustment, int(abs(temp_diff) * under_target_gain))
UnderBase(aggressive, diff) ==
    Max2(min_adjustment(aggressive),
         IntGain(Abs(diff), under_target_gain(aggressive)))

\* Mutant of UnderAdjustment: the two decrease factors are swapped.
UnderAdjustment_Swapped(base, aggressive) ==
    IF aggressive THEN IntTimes05(base) ELSE IntTimes07(base)

\* adjustment = int(adjustment * 0.7) if aggressive_mode else int(adjustment * 0.5)
UnderAdjustment(base, aggressive) ==
    IF aggressive THEN IntTimes07(base) ELSE IntTimes05(base)

\* Mutant of OverNewFan: the clamp to max_fan is forgotten.
OverNewFan_Unclamped(last, adjustment, hi) == last + adjustment

\* Mutant of OverNewFan: the adjustment is subtracted.
OverNewFan_Subtracting(last, adjustment, hi) == Min2(hi, last - adjustment)

\* new_fan = min(max_fan, last_fan_speed + adjustment)
OverNewFan(last, adjustment, hi) == Min2(hi, last + adjustment)

\* Mutant of UnderNewFan: the adjustment is added.
UnderNewFan_Adding(last, adjustment, lo) == Max2(lo, last + adjustment)

\* new_fan = max(min_fan, last_fan_speed - adjustment)
UnderNewFan(last, adjustment, lo) == Max2(lo, last - adjustment)

\* Mutant of Commit: the size of the error is not looked at.
Commit_ChangeOnly(new_fan, last, diff) == Abs(new_fan - last) >= 2

\* Mutant of Commit: the change must exceed 2 instead of reaching it.
Commit_Strict(new_fan, last, diff) ==
    \/ Abs(new_fan - last) > 2
    \/ Abs(diff) > 3 * Milli

\* abs(new_fan - last_fan_speed) >= 2 or abs(temp_diff) > 3
Commit(new_fan, last, diff) ==
    \/ Abs(new_fan - last) >= 2
    \/ Abs(diff) > 3 * Milli

(***************************************************************************)
(* The environment of a session: the readings its sensor delivers, how     *)
(* many samples it is fed and how often the reading may change.            *)
(***************************************************************************)
Changes(log) == Cardinality({i \in 1..(Len(log) - 1) : log[i] # log[i + 1]})

MayFeed(t) ==
    /\ t \in env.sensor
    /\ Len(received) < env.samples
    /\ Changes(Append(received, t)) <= env.changes

\* Mutant of CallUnavailable: a missing reading is taken for an unstable one.
CallUnavailable_Resetting ==
    /\ call' = [kind |-> "unavailable", ret |-> last_fan_speed]
    /\ stable_counter' = 0
    /\ UNCHANGED <<target_temp, min_fan, max_fan, last_fan_speed, temp_history,
                   aggressive_mode, received, env, curveVars, trayVars>>

(***************************************************************************)
(* get_fan_speed_for_temp(None)                                            *)
(***************************************************************************)
CallUnavailable ==
    /\ call' = [kind |-> "unavailable", ret |-> last_fan_speed]
    /\ UNCHANGED <<target_temp, min_fan, max_fan, last_fan_speed, temp_history,
                   aggressive_mode, stable_counter, received, env,
                   curveVars, trayVars>>

(***************************************************************************)
(* get_fan_speed_for_temp(current_temp) with a reading                     *)
(***************************************************************************)
CallSample(current_temp) ==
    \E h \in {AppendHistory(temp_history, current_temp)} :
    \E counter1 \in {CounterAfter(h, current_temp, target_temp, stable_counter)} :
    \E aggressive \in {ModeAfter(h, current_temp, target_temp, aggressive_mode, counter1)} :
    \E temp_diff \in {current_temp - target_temp * Milli} :
    \E base \in {IF temp_diff > 0 THEN OverBase(aggressive, temp_diff)
                 ELSE UnderBase(aggressive, temp_diff)} :
    \E adjustment \in {IF temp_diff > 0 THEN OverAdjustment(base, h)
                       ELSE UnderAdjustment(base, aggressive)} :
    \E new_fan \in {IF temp_diff > 0
                    THEN OverNewFan(last_fan_speed, adjustment, max_fan)
                    ELSE UnderNewFan(last_fan_speed, adjustment, min_fan)} :
    \E speed \in {IF Commit(new_fan, last_fan_speed, temp_diff)
                  THEN new_fan ELSE last_fan_speed} :
        /\ MayFeed(current_temp)
        /\ temp_history' = h
        /\ stable_counter' = counter1
        /\ aggressive_mode' = aggressive
        /\ last_fan_speed' = speed
        /\ received' = Append(received, current_temp)
        /\ call' = [kind |-> "sample", current_temp |-> current_temp,
                    temp_diff |-> temp_diff, base |-> base,
                    adjustment |-> adjustment, new_fan |-> new_fan,
                    ret |-> speed]
        /\ UNCHANGED <<target_temp, min_fan, max_fan, env, curveVars>>

\* A polling loop with temperature control on hands over its reading.
Sample == (\E t \in env.sensor : CallSample(t)) /\ UNCHANGED trayVars

Next == CallUnavailable \/ Sample

(***************************************************************************)
(* temperature_control(adl, target_temp, min_fan, max_fan): the state of   *)
(* the closure once constructed.                                           *)
(***************************************************************************)
Constructed(target, lo, hi) ==
    /\ target_temp = target
    /\ min_fan = lo
    /\ max_fan = hi
    /\ last_fan_speed = lo
    /\ temp_history = <<>>
    /\ aggressive_mode = TRUE
    /\ stable_counter = 0
    /\ call = [kind |-> "none"]
    /\ received = <<>>

(***************************************************************************)
(* FanCurve.  Point temperatures are whole degrees, fan speeds whole       *)
(* percents; a reading is in millidegrees; an interpolated speed is the    *)
(* exact fraction num / den, den > 0, which the double arithmetic of the   *)
(* code yields on the readings used here (ratios are k / 2^m).             *)
(***************************************************************************)
\* One control point; py is the Python type that holds the pair.
Point(t, f, py) == [t |-> t, f |-> f, py |-> py]

\* The (temp, fan) pairs of a point list, whatever holds them.
Pairs(points) == [i \in 1..Len(points) |-> <<points[i].t, points[i].f>>]

\* [(30, 30), (50, 40), (70, 60), (80, 80), (90, 100)]
DefaultPoints ==
    << Point(30, 30, "tuple"), Point(50, 40, "tuple"), Point(70, 60, "tuple"),
       Point(80, 80, "tuple"), Point(90, 100, "tuple") >>

NoCurve == [kind |-> "None"]

\* list.sort(key=lambda p: p[0]) is stable: a point goes behind every point
\* of the sorted prefix whose temperature is not above its own.
InsertByTemp(sorted, p) ==
    LET k == Cardinality({i \in 1..Len(sorted) : sorted[i].t <= p.t})
    IN  SubSeq(sorted, 1, k) \o <<p>> \o SubSeq(sorted, k + 1, Len(sorted))

RECURSIVE SortByTemp(_)
SortByTemp(points) ==
    IF points = <<>> THEN <<>>
    ELSE InsertByTemp(SortByTemp(SubSeq(points, 1, Len(points) - 1)),
                      points[Len(points)])

\* FanCurve.__init__(name, points): points or the default list, then sorted.
FanCurve(name, points) ==
    [kind |-> "FanCurve", name |-> name,
     points |-> SortByTemp(IF points = <<>> THEN DefaultPoints ELSE points)]

RECURSIVE Gcd(_, _)
Gcd(a, b) == IF b = 0 THEN a ELSE Gcd(b, a % b)

\* A speed as returned by get_fan_speed: which return statement, and the
\* value num / den in lowest terms.
Speed(branch, num, den) ==
    LET g == Gcd(Abs(num), den)
    IN  [branch |-> branch, num |-> num \div g, den |-> den \div g]

\* The first index the loop over range(len(points) - 1) stops at.
FirstOf(indices) == CHOOSE i \in indices : \A j \in indices : i <= j

\* Mutant of get_fan_speed: f1 and f2 are swapped in the interpolation.
get_fan_speed_Swapped(points, temperature) ==
    LET n       == Len(points)
        bracket == {i \in 1..(n - 1) :
                       /\ points[i].t * Milli <= temperature
                       /\ temperature <= points[i + 1].t * Milli}
    IN  IF temperature <= points[1].t * Milli THEN Speed("low", points[1].f, 1)
        ELSE IF temperature >= points[n].t * Milli
             THEN Speed("high", points[n].f, 1)
        ELSE IF bracket = {} THEN Speed("fallback", 50, 1)
        ELSE LET i  == FirstOf(bracket)
                 t1 == points[i].t * Milli
                 t2 == points[i + 1].t * Milli
                 f1 == points[i + 1].f
                 f2 == points[i].f
             IN  IF t2 = t1 THEN Speed("ZeroDivisionError", 0, 1)
                 ELSE Speed("interpolated",
                            f1 * (t2 - t1) + (temperature - t1) * (f2 - f1),
                            t2 - t1)

\* Mutant of get_fan_speed: the clamps compare with < and >.
get_fan_speed_StrictClamps(points, temperature) ==
    LET n       == Len(points)
        bracket == {i \in 1..(n - 1) :
                       /\ points[i].t * Milli <= temperature
                       /\ temperature <= points[i + 1].t * Milli}
    IN  IF temperature < points[1].t * Milli THEN Speed("low", points[1].f, 1)
        ELSE IF temperature > points[n].t * Milli
             THEN Speed("high", points[n].f, 1)
        ELSE IF bracket = {} THEN Speed("fallback", 50, 1)
        ELSE LET i  == FirstOf(bracket)
                 t1 == points[i].t * Milli
                 t2 == points[i + 1].t * Milli
                 f1 == points[i].f
                 f2 == points[i + 1].f
             IN  IF t2 = t1 THEN Speed("ZeroDivisionError", 0, 1)
                 ELSE Speed("interpolated",
                            f1 * (t2 - t1) + (temperature - t1) * (f2 - f1),
                            t2 - t1)

\* FanCurve.get_fan_speed(temperature) for a reading: the clamps, then the
\* first adjacent pair with t1 <= temperature <= t2, then the fallback.
get_fan_speed(points, temperature) ==
    LET n       == Len(points)
        bracket == {i \in 1..(n - 1) :
                       /\ points[i].t * Milli <= temperature
                       /\ temperature <= points[i + 1].t * Milli}
    IN  IF temperature <= points[1].t * Milli THEN Speed("low", points[1].f, 1)
        ELSE IF temperature >= points[n].t * Milli
             THEN Speed("high", points[n].f, 1)
        ELSE IF bracket = {} THEN Speed("fallback", 50, 1)
        ELSE LET i  == FirstOf(bracket)
                 t1 == points[i].t * Milli
                 t2 == points[i + 1].t * Milli
                 f1 == points[i].f
                 f2 == points[i + 1].f
             IN  IF t2 = t1 THEN Speed("ZeroDivisionError", 0, 1)
                 ELSE Speed("interpolated",
                            f1 * (t2 - t1) + (temperature - t1) * (f2 - f1),
                            t2 - t1)

\* Comparison of two returned speeds.
SpeedLe(a, b) == a.num * b.den <= b.num * a.den

SpeedIs(a, num, den) == a.num * den = num * a.den

\* save_curve(curve): json.dump({"name": curve.name, "points": curve.points});
\* every pair is written as a JSON array.
save_curve(curve) ==
    [kind |-> "json", keys |-> {"name", "points"}, name |-> curve.name,
     points |-> [i \in 1..Len(curve.points) |->
                    Point(curve.points[i].t, curve.points[i].f, "list")]]

\* Mutant of load_curve: the stored name is not read.
load_curve_Unnamed(file) ==
    IF file.kind # "json" THEN NoCurve
    ELSE FanCurve("Loaded",
                  IF "points" \in file.keys THEN file.points ELSE <<>>)

\* load_curve(): None without a file or with one that is not JSON, else
\* FanCurve(data.get("name", "Loaded"), data.get("points", [])).
load_curve(file) ==
    IF file.kind # "json" THEN NoCurve
    ELSE FanCurve(IF "name" \in file.keys THEN file.name ELSE "Loaded",
                  IF "points" \in file.keys THEN file.points ELSE <<>>)

\* A file as json.load reads it.
JsonFile(keys, name, points) ==
    [kind |-> "json", keys |-> keys, name |-> name,
     points |-> [i \in 1..Len(points) |->
                    Point(points[i][1], points[i][2], "list")]]

\* FanCurveDialog.on_ok over the rows of the dialog: rows with temp <= 0 are
\* skipped, a row out of range ends the handler with an error, fewer than 2
\* rows left do too; else FanCurve(name or "Custom", valid_points).
RowInRange(r) == 0 <= r.t /\ r.t <= 110 /\ 0 <= r.f /\ r.f <= 100

ValidPoints(rows) ==
    LET kept == SelectSeq(rows, LAMBDA r : r.t > 0)
    IN  [i \in 1..Len(kept) |-> Point(kept[i].t, kept[i].f, "list")]

on_ok(name, rows) ==
    IF \E i \in 1..Len(rows) : rows[i].t > 0 /\ ~RowInRange(rows[i])
    THEN [error |-> "Invalid Values", result |-> NoCurve]
    ELSE IF Len(ValidPoints(rows)) < 2
    THEN [error |-> "Not Enough Points", result |-> NoCurve]
    ELSE [error |-> "",
          result |-> FanCurve(IF name = "" THEN "Custom" ELSE name,
                              ValidPoints(rows))]

\* No FanCurve operation takes place.
CurveIdle ==
    /\ current_curve = NoCurve
    /\ config_file = [kind |-> "absent"]
    /\ curve_call = [op |-> "none"]
    /\ given = [name |-> "Default", points |-> <<>>]

\* No tray monitor runs.
TrayIdle ==
    /\ curve_mode = FALSE
    /\ temp_limit_mode = FALSE
    /\ temp = None
    /\ fan_speed = Auto
    /\ tray_new_fan = None
    /\ fed = {}
    /\ hw_fan = Auto
    /\ overridden = FALSE
    /\ pc = [update_thread |-> "read", icon_thread |-> "idle",
             main_thread |-> "idle"]

(***************************************************************************)
(* Sessions.  The tray monitor and apply_temp_limit construct the closure  *)
(* with the defaults (70, 30, 100); TempControlDialog.on_ok hands over any *)
(* target in 40..90 and any bounds 0 <= min_fan <= max_fan <= 100.         *)
(***************************************************************************)
Session(target, lo, hi, sensor, samples, changes) ==
    [target |-> target, lo |-> lo, hi |-> hi,
     sensor |-> sensor, samples |-> samples, changes |-> changes]

\* Two readings, changing freely.
Free(target, lo, hi, sensor) ==
    Session(target, lo, hi, sensor, MaxSamples, MaxSamples)

\* Three readings, changing at most MaxChanges times over a longer run.
Slow(target, lo, hi, sensor) ==
    Session(target, lo, hi, sensor, MaxRun, MaxChanges)

Sessions ==
    { Free(70, 30, 100, {70000, 71500}),
      Free(70, 30, 100, {68000, 72000}),
      Free(70, 30, 100, {69500, 70500}),
      Free(70, 30, 100, {63500, 76500}),
      Free(70, 30, 100, {70000, 74500}),
      Free(70, 30, 100, {60000, 80000}),
      Free(70, 30, 100, {66500, 70500}),
      Free(65, 40, 45, {63000, 68500}),
      Free(80, 50, 50, {79000, 81000}),
      Slow(70, 30, 100, {70000, 74000, 75500}) }

Init ==
    /\ \E s \in Sessions :
          /\ Constructed(s.target, s.lo, s.hi)
          /\ env = [sensor |-> s.sensor, samples |-> s.samples,
                    changes |-> s.changes]
    /\ CurveIdle
    /\ TrayIdle

Spec == Init /\ [][Next]_vars

(***************************************************************************)
(* FanCurve on its own: one run constructs curves from one name and one    *)
(* point list (the arguments of FanCurve, or the rows typed in the         *)
(* dialog), saves and loads them, and queries them.                        *)
(***************************************************************************)
PointTemps == {40, 50, 60}

PointFans == {30, 60}

PointChoices == {Point(t, f, "tuple") : t \in PointTemps, f \in PointFans}

\* Every point list of up to MaxPoints points, in any order.
PointLists == UNION {[1..n -> PointChoices] : n \in 0..MaxPoints}

\* Longer lists: a repeated temperature between two others, unsorted points
\* with falling speeds, a row with temperature 0, a row out of range, and a
\* single row left once the row with temperature 0 is skipped.
ExtraLists ==
    { << Point(40, 30, "tuple"), Point(50, 40, "tuple"),
         Point(50, 60, "tuple"), Point(60, 60, "tuple") >>,
      << Point(60, 30, "tuple"), Point(40, 60, "tuple"),
         Point(50, 30, "tuple") >>,
      << Point(0, 50, "tuple"), Point(40, 30, "tuple"),
         Point(60, 60, "tuple") >>,
      << Point(40, 30, "tuple"), Point(120, 100, "tuple") >>,
      << Point(0, 30, "tuple"), Point(50, 40, "tuple") >> }

\* What config/fan_curve.json may hold when the program starts.
Files ==
    { [kind |-> "absent"],
      [kind |-> "corrupt"],
      JsonFile({}, "", <<>>),
      JsonFile({"name", "points"}, "Empty", <<>>),
      JsonFile({"name", "points"}, "Solo", << <<50, 40>> >>),
      JsonFile({"points"}, "", << <<70, 60>>, <<30, 30>> >>) }

CurveSessions ==
    {[name |-> "Quiet", points |-> pts, file |-> [kind |-> "absent"]] :
        pts \in PointLists}
    \cup {[name |-> "", points |-> pts, file |-> f] :
             pts \in ExtraLists, f \in Files}

\* The readings a curve is asked about, millidegrees.
Readings == {25000, 40000, 45000, 50000, 57500, 60000, 95000}

\* FanCurve(name, points)
Construct ==
    /\ current_curve' = FanCurve(given.name, given.points)
    /\ curve_call' = [op |-> "FanCurve", points |-> given.points,
                      ret |-> current_curve']
    /\ UNCHANGED <<config_file, given, ctlVars, trayVars>>

\* FanCurveDialog.on_ok, and on_curve_dialog_complete(result) for a result:
\* current_curve = result; save_curve(current_curve).
DialogOk ==
    LET done == on_ok(given.name, given.points)
    IN  /\ curve_call' = [op |-> "on_ok", rows |-> given.points,
                          error |-> done.error, ret |-> done.result]
        /\ IF done.error = ""
           THEN /\ current_curve' = done.result
                /\ config_file' = save_curve(done.result)
           ELSE UNCHANGED <<current_curve, config_file>>
        /\ UNCHANGED <<given, ctlVars, trayVars>>

\* save_curve(current_curve)
SaveCurve ==
    /\ current_curve # NoCurve
    /\ config_file' = save_curve(current_curve)
    /\ curve_call' = [op |-> "save_curve", curve |-> current_curve]
    /\ UNCHANGED <<current_curve, given, ctlVars, trayVars>>

\* current_curve = load_curve()
LoadCurve ==
    /\ current_curve' = load_curve(config_file)
    /\ curve_call' = [op |-> "load_curve", file |-> config_file,
                      ret |-> current_curve']
    /\ UNCHANGED <<config_file, given, ctlVars, trayVars>>

\* current_curve.get_fan_speed(temperature) for a reading
GetFanSpeed(temperature) ==
    /\ current_curve # NoCurve
    /\ curve_call' = [op |-> "get_fan_speed", points |-> current_curve.points,
                      temperature |-> temperature,
                      ret |-> get_fan_speed(current_curve.points, temperature)]
    /\ UNCHANGED <<current_curve, config_file, given, ctlVars, trayVars>>

\* current_curve.get_fan_speed(None) returns None
GetFanSpeedUnavailable ==
    /\ current_curve # NoCurve
    /\ curve_call' = [op |-> "get_fan_speed", points |-> current_curve.points,
                      temperature |-> None,
                      ret |-> Speed("None", 0, 1)]
    /\ UNCHANGED <<current_curve, config_file, given, ctlVars, trayVars>>

Query == \E t \in Readings : GetFanSpeed(t)

NextCurve ==
    \/ Construct
    \/ DialogOk
    \/ SaveCurve
    \/ LoadCurve
    \/ Query
    \/ GetFanSpeedUnavailable

InitCurve ==
    /\ Constructed(70, 30, 100)
    /\ env = [sensor |-> {}, samples |-> 0, changes |-> 0]
    /\ \E s \in CurveSessions :
          /\ current_curve = NoCurve
          /\ config_file = s.file
          /\ curve_call = [op |-> "none"]
          /\ given = [name |-> s.name, points |-> s.points]
    /\ TrayIdle

SpecCurve == InitCurve /\ [][NextCurve]_vars

(***************************************************************************)
(* monitor_in_system_tray.  Three threads share curve_mode and             *)
(* temp_limit_mode: update_thread runs update_icon, icon_thread runs the   *)
(* menu callbacks, the main thread runs the Tk dialogs and the ask_enable  *)
(* closures.  A step is one statement of a callback; in a polling          *)
(* iteration, the test of a mode with the computation of new_fan is one    *)
(* step and the set_fan_speed that follows is another.                     *)
(***************************************************************************)
\* The reading of the session; it is delivered while the sample budget lasts.
TrayReadings == {80000}

\* What the scales of TempControlDialog are left at when OK is pressed:
\* the defaults, other valid bounds, and max_fan below min_fan.
TempChoices == { <<70, 30, 100>>, <<60, 40, 80>>, <<70, 80, 40>> }

\* set_speed_30, set_speed_50, set_speed_70, set_speed_100
MenuSpeeds == {30, 50, 70, 100}

\* The rows typed in FanCurveDialog: a curve, or one row only.
TrayRows ==
    { << Point(60, 60, "list"), Point(40, 30, "list") >>,
      << Point(50, 40, "list") >> }

\* int(x) of a returned speed
IntSpeed(s) == s.num \div s.den

\* temp_controller = temperature_control(adl, target, lo, hi) in a running
\* monitor: a fresh closure replaces the one in use.
Construction(target, lo, hi) ==
    /\ target_temp' = target
    /\ min_fan' = lo
    /\ max_fan' = hi
    /\ last_fan_speed' = lo
    /\ temp_history' = <<>>
    /\ aggressive_mode' = TRUE
    /\ stable_counter' = 0
    /\ call' = [kind |-> "none"]
    /\ received' = <<>>
    /\ UNCHANGED env

\* if new_fan != fan_speed: set_fan_speed(adl, new_fan); fan_speed = new_fan
Apply(speed) ==
    IF speed # fan_speed
    THEN hw_fan' = speed /\ fan_speed' = speed
    ELSE UNCHANGED <<hw_fan, fan_speed>>

At(thread, where) == pc[thread] = where

Goto(thread, where) == pc' = [pc EXCEPT ![thread] = where]

\* temp = get_temperature(adl); fan_speed = get_fan_speed(adl)
PollRead ==
    /\ At("update_thread", "read")
    /\ \/ temp' = None
       \/ /\ Len(received) < env.samples
          /\ \E t \in env.sensor : temp' = t
    /\ fan_speed' = hw_fan
    /\ fed' = {}
    /\ Goto("update_thread", "curve")
    /\ UNCHANGED <<curve_mode, temp_limit_mode, tray_new_fan, hw_fan,
                   overridden, ctlVars, curveVars>>

\* Mutant of PollCurve: the curve is asked whatever the reading is.
PollCurve_Unguarded ==
    /\ At("update_thread", "curve")
    /\ IF curve_mode
       THEN /\ fed' = fed \cup {"current_curve"}
            /\ tray_new_fan' =
                   IntSpeed(get_fan_speed(current_curve.points, temp))
            /\ Goto("update_thread", "curve_set")
       ELSE /\ UNCHANGED <<fed, tray_new_fan>>
            /\ Goto("update_thread", "limit")
    /\ UNCHANGED <<curve_mode, temp_limit_mode, temp, fan_speed, hw_fan,
                   overridden, ctlVars, curveVars>>

\* if curve_mode and temp is not None:
\*     new_fan = int(current_curve.get_fan_speed(temp))
PollCurve ==
    /\ At("update_thread", "curve")
    /\ IF curve_mode /\ temp # None
       THEN /\ fed' = fed \cup {"current_curve"}
            /\ tray_new_fan' =
                   IntSpeed(get_fan_speed(current_curve.points, temp))
            /\ Goto("update_thread", "curve_set")
       ELSE /\ UNCHANGED <<fed, tray_new_fan>>
            /\ Goto("update_thread", "limit")
    /\ UNCHANGED <<curve_mode, temp_limit_mode, temp, fan_speed, hw_fan,
                   overridden, ctlVars, curveVars>>

\* curve block: if new_fan != fan_speed: set_fan_speed(adl, new_fan); ...
PollCurveSet ==
    /\ At("update_thread", "curve_set")
    /\ Apply(tray_new_fan)
    /\ Goto("update_thread", "limit")
    /\ UNCHANGED <<curve_mode, temp_limit_mode, temp, tray_new_fan, fed,
                   overridden, ctlVars, curveVars>>

\* if temp_limit_mode and temp is not None: new_fan = temp_controller(temp);
\* else the icon, root.update() and the sleep
PollLimit ==
    /\ At("update_thread", "limit")
    /\ IF temp_limit_mode /\ temp # None
       THEN /\ CallSample(temp)
            /\ fed' = fed \cup {"temp_controller"}
            /\ tray_new_fan' = call'.ret
            /\ Goto("update_thread", "limit_set")
       ELSE /\ UNCHANGED <<fed, tray_new_fan, ctlVars, curveVars>>
            /\ Goto("update_thread", "read")
    /\ UNCHANGED <<curve_mode, temp_limit_mode, temp, fan_speed, hw_fan,
                   overridden>>

\* limit block: if new_fan != fan_speed: set_fan_speed(adl, new_fan); ...;
\* then the icon, root.update() and the sleep
PollLimitSet ==
    /\ At("update_thread", "limit_set")
    /\ Apply(tray_new_fan)
    /\ Goto("update_thread", "read")
    /\ UNCHANGED <<curve_mode, temp_limit_mode, temp, tray_new_fan, fed,
                   overridden, ctlVars, curveVars>>

\* toggle_curve: curve_mode = not curve_mode
ToggleCurve ==
    /\ At("icon_thread", "idle")
    /\ curve_mode' = ~curve_mode
    /\ overridden' = (overridden /\ curve_mode)
    /\ Goto("icon_thread", "toggle_curve")
    /\ UNCHANGED <<temp_limit_mode, temp, fan_speed, fed, hw_fan,
                   tray_new_fan, ctlVars, curveVars>>

\* toggle_curve: if curve_mode: temp_limit_mode = False
ToggleCurveIf ==
    /\ At("icon_thread", "toggle_curve")
    /\ temp_limit_mode' = IF curve_mode THEN FALSE ELSE temp_limit_mode
    /\ Goto("icon_thread", "idle")
    /\ UNCHANGED <<curve_mode, temp, fan_speed, fed, hw_fan, tray_new_fan,
                   overridden, ctlVars, curveVars>>

\* toggle_temp_limit: temp_limit_mode = not temp_limit_mode
ToggleTempLimit ==
    /\ At("icon_thread", "idle")
    /\ temp_limit_mode' = ~temp_limit_mode
    /\ overridden' = (overridden /\ temp_limit_mode)
    /\ Goto("icon_thread", "toggle_temp_limit")
    /\ UNCHANGED <<curve_mode, temp, fan_speed, fed, hw_fan, tray_new_fan,
                   ctlVars, curveVars>>

\* toggle_temp_limit: if temp_limit_mode: curve_mode = False; temp_controller
\* is a function since line 818, so "if not temp_controller" never holds.
ToggleTempLimitIf ==
    /\ At("icon_thread", "toggle_temp_limit")
    /\ curve_mode' = IF temp_limit_mode THEN FALSE ELSE curve_mode
    /\ Goto("icon_thread", "idle")
    /\ UNCHANGED <<temp_limit_mode, temp, fan_speed, fed, hw_fan,
                   tray_new_fan, overridden, ctlVars, curveVars>>

\* set_speed_N, reset_to_auto: curve_mode = temp_limit_mode = False stores
\* curve_mode first
ClearModes ==
    /\ At("icon_thread", "idle")
    /\ curve_mode' = FALSE
    /\ Goto("icon_thread", "clear")
    /\ UNCHANGED <<temp_limit_mode, temp, fan_speed, fed, hw_fan,
                   tray_new_fan, overridden, ctlVars, curveVars>>

\* set_speed_N: temp_limit_mode = False; set_fan_speed(adl, N)
SetSpeed(n) ==
    /\ At("icon_thread", "clear")
    /\ temp_limit_mode' = FALSE
    /\ overridden' = TRUE
    /\ hw_fan' = n
    /\ Goto("icon_thread", "idle")
    /\ UNCHANGED <<curve_mode, temp, fan_speed, fed, tray_new_fan, ctlVars,
                   curveVars>>

set_speed == \E n \in MenuSpeeds : SetSpeed(n)

\* reset_to_auto: temp_limit_mode = False; disable_fan_control(adl)
reset_to_auto ==
    /\ At("icon_thread", "clear")
    /\ temp_limit_mode' = FALSE
    /\ overridden' = TRUE
    /\ hw_fan' = Auto
    /\ Goto("icon_thread", "idle")
    /\ UNCHANGED <<curve_mode, temp, fan_speed, fed, tray_new_fan, ctlVars,
                   curveVars>>

\* configure_curve, setup_fan_curve: the dialog opens in the main thread
configure_curve ==
    /\ At("icon_thread", "idle")
    /\ At("main_thread", "idle")
    /\ Goto("main_thread", "curve_dialog")
    /\ UNCHANGED <<curve_mode, temp_limit_mode, temp, fan_speed, fed, hw_fan,
                   tray_new_fan, overridden, ctlVars, curveVars>>

\* configure_temp, setup_temp_limit: the dialog opens in the main thread
configure_temp ==
    /\ At("icon_thread", "idle")
    /\ At("main_thread", "idle")
    /\ Goto("main_thread", "temp_dialog")
    /\ UNCHANGED <<curve_mode, temp_limit_mode, temp, fan_speed, fed, hw_fan,
                   tray_new_fan, overridden, ctlVars, curveVars>>

\* FanCurveDialog.on_ok, then on_curve_dialog_complete(result): an error
\* leaves the dialog open; a result is stored, saved, and ask_enable is
\* scheduled.
CurveDialogOk ==
    /\ At("main_thread", "curve_dialog")
    /\ LET done == on_ok(given.name, given.points)
       IN  IF done.error = ""
           THEN /\ current_curve' = done.result
                /\ config_file' = save_curve(done.result)
                /\ Goto("main_thread", "curve_ask")
           ELSE UNCHANGED <<current_curve, config_file, pc>>
    /\ UNCHANGED <<curve_mode, temp_limit_mode, temp, fan_speed, fed, hw_fan,
                   tray_new_fan, overridden, ctlVars, curve_call, given>>

\* TempControlDialog.on_ok, then on_temp_dialog_complete(result): max_fan
\* below min_fan leaves the dialog open; else the bounds are stored, a new
\* closure is constructed and ask_enable is scheduled.
TempDialogOk ==
    /\ At("main_thread", "temp_dialog")
    /\ \E choice \in TempChoices :
          IF choice[3] < choice[2]
          THEN UNCHANGED <<ctlVars, pc>>
          ELSE /\ Construction(choice[1], choice[2], choice[3])
               /\ Goto("main_thread", "temp_ask")
    /\ UNCHANGED <<curve_mode, temp_limit_mode, temp, fan_speed, fed, hw_fan,
                   tray_new_fan, overridden, curveVars>>

\* on_cancel of either dialog, or "No" to either question
Dismiss ==
    /\ pc["main_thread"] \in {"curve_dialog", "temp_dialog",
                              "curve_ask", "temp_ask"}
    /\ Goto("main_thread", "idle")
    /\ UNCHANGED <<curve_mode, temp_limit_mode, temp, fan_speed, fed, hw_fan,
                   tray_new_fan, overridden, ctlVars, curveVars>>

\* ask_enable of on_curve_dialog_complete, "Yes": curve_mode = True
CurveAskEnable ==
    /\ At("main_thread", "curve_ask")
    /\ curve_mode' = TRUE
    /\ overridden' = FALSE
    /\ Goto("main_thread", "curve_enable")
    /\ UNCHANGED <<temp_limit_mode, temp, fan_speed, fed, hw_fan,
                   tray_new_fan, ctlVars, curveVars>>

\* ask_enable of on_curve_dialog_complete: temp_limit_mode = False
CurveAskEnableEnd ==
    /\ At("main_thread", "curve_enable")
    /\ temp_limit_mode' = FALSE
    /\ Goto("main_thread", "idle")
    /\ UNCHANGED <<curve_mode, temp, fan_speed, fed, hw_fan, tray_new_fan,
                   overridden, ctlVars, curveVars>>

\* ask_enable of on_temp_dialog_complete, "Yes": temp_limit_mode = True
TempAskEnable ==
    /\ At("main_thread", "temp_ask")
    /\ temp_limit_mode' = TRUE
    /\ overridden' = FALSE
    /\ Goto("main_thread", "temp_enable")
    /\ UNCHANGED <<curve_mode, temp, fan_speed, fed, hw_fan, tray_new_fan,
                   ctlVars, curveVars>>

\* ask_enable of on_temp_dialog_complete: curve_mode = False
TempAskEnableEnd ==
    /\ At("main_thread", "temp_enable")
    /\ curve_mode' = FALSE
    /\ Goto("main_thread", "idle")
    /\ UNCHANGED <<temp_limit_mode, temp, fan_speed, fed, hw_fan,
                   tray_new_fan, overridden, ctlVars, curveVars>>

NextTray ==
    \/ PollRead
    \/ PollCurve
    \/ PollCurveSet
    \/ PollLimit
    \/ PollLimitSet
    \/ ToggleCurve
    \/ ToggleCurveIf
    \/ ToggleTempLimit
    \/ ToggleTempLimitIf
    \/ ClearModes
    \/ set_speed
    \/ reset_to_auto
    \/ configure_curve
    \/ configure_temp
    \/ CurveDialogOk
    \/ TempDialogOk
    \/ Dismiss
    \/ CurveAskEnable
    \/ CurveAskEnableEnd
    \/ TempAskEnable
    \/ TempAskEnableEnd

\* The monitor once its threads are started: no saved curve, the default
\* curve and the default controller, both modes off.
InitTray ==
    /\ Constructed(70, 30, 100)
    /\ env = [sensor |-> TrayReadings, samples |-> MaxTraySamples,
              changes |-> MaxTraySamples]
    /\ current_curve = FanCurve("Default", <<>>)
    /\ config_file = [kind |-> "absent"]
    /\ curve_call = [op |-> "none"]
    /\ \E rows \in TrayRows : given = [name |-> "Quiet", points |-> rows]
    /\ TrayIdle

SpecTray == InitTray /\ [][NextTray]_vars

(***************************************************************************)
(* main with the command "curve" or "temp": apply_fan_curve and            *)
(* apply_temp_limit, the polling loops of the command line.  One thread    *)
(* runs the loop; a step is one iteration.                                 *)
(***************************************************************************)
\* The sessions of "temp [TEMP]": the target is 70 unless given, and kept
\* within 40..90; min_fan and max_fan are the defaults 30 and 100.
CliSessions ==
    { Session(70, 30, 100, {68000, 72000}, MaxSamples, MaxChanges),
      Session(40, 30, 100, {39000, 50000}, MaxSamples, MaxChanges) }

\* apply_fan_curve, one iteration: temp = get_temperature(adl); if temp is
\* not None: fan_speed = int(curve.get_fan_speed(temp)); set_fan_speed(...)
apply_fan_curve ==
    /\ At("main_thread", "apply_fan_curve")
    /\ \E reading \in Readings \cup {None} :
          /\ temp' = reading
          /\ IF reading # None
             THEN /\ fed' = {"current_curve"}
                  /\ fan_speed' =
                       IntSpeed(get_fan_speed(current_curve.points, reading))
                  /\ hw_fan' = fan_speed'
             ELSE /\ fed' = {}
                  /\ UNCHANGED <<fan_speed, hw_fan>>
    /\ UNCHANGED <<curve_mode, temp_limit_mode, tray_new_fan, overridden, pc,
                   ctlVars, curveVars>>

\* apply_temp_limit, one iteration: temp = get_temperature(adl); if temp is
\* not None: fan_speed = temp_controller(temp); set_fan_speed(...)
apply_temp_limit ==
    /\ At("main_thread", "apply_temp_limit")
    /\ \/ /\ temp' = None
          /\ fed' = {}
          /\ UNCHANGED <<fan_speed, hw_fan, ctlVars, curveVars>>
       \/ \E reading \in env.sensor :
             /\ temp' = reading
             /\ CallSample(reading)
             /\ fed' = {"temp_controller"}
             /\ fan_speed' = call'.ret
             /\ hw_fan' = call'.ret
    /\ UNCHANGED <<curve_mode, temp_limit_mode, tray_new_fan, overridden, pc>>

\* main before apply_fan_curve: curve = load_curve(), or FanCurve() if there
\* is none
InitCurveLoop ==
    /\ \E file \in Files :
          /\ config_file = file
          /\ current_curve = IF load_curve(file) = NoCurve
                             THEN FanCurve("Default", <<>>)
                             ELSE load_curve(file)
    /\ curve_call = [op |-> "none"]
    /\ given = [name |-> "Default", points |-> <<>>]
    /\ Constructed(70, 30, 100)
    /\ env = [sensor |-> {}, samples |-> 0, changes |-> 0]
    /\ curve_mode = FALSE
    /\ temp_limit_mode = FALSE
    /\ temp = None
    /\ fan_speed = Auto
    /\ tray_new_fan = None
    /\ fed = {}
    /\ hw_fan = Auto
    /\ overridden = FALSE
    /\ pc = [update_thread |-> "none", icon_thread |-> "none",
             main_thread |-> "apply_fan_curve"]

\* apply_temp_limit before its loop:
\* temp_controller = temperature_control(adl, target_temp, min_fan, max_fan)
InitLimitLoop ==
    /\ \E s \in CliSessions :
          /\ Constructed(s.target, s.lo, s.hi)
          /\ env = [sensor |-> s.sensor, samples |-> s.samples,
                    changes |-> s.changes]
    /\ CurveIdle
    /\ curve_mode = FALSE
    /\ temp_limit_mode = FALSE
    /\ temp = None
    /\ fan_speed = Auto
    /\ tray_new_fan = None
    /\ fed = {}
    /\ hw_fan = Auto
    /\ overridden = FALSE
    /\ pc = [update_thread |-> "none", icon_thread |-> "none",
             main_thread |-> "apply_temp_limit"]

\* The three polling loops of the program, each from its own start.
InitPolling == InitTray \/ InitCurveLoop \/ InitLimitLoop

NextPolling == NextTray \/ apply_fan_curve \/ apply_temp_limit

SpecPolling == InitPolling /\ [][NextPolling]_vars


(***************************************************************************)
(* Properties of the controller.                                           *)
(***************************************************************************)

\* C1: with min_fan <= max_fan, the stored last_fan_speed and every value
\* returned by get_fan_speed_for_temp lie in [min_fan, max_fan].
C1_SpeedWithinBounds ==
    min_fan <= max_fan =>
        /\ min_fan <= last_fan_speed
        /\ last_fan_speed <= max_fan
        /\ call.kind # "none" => min_fan <= call.ret /\ call.ret <= max_fan

\* A too-hot sample whose increase was cut to max_fan, above min_fan.
C1_Witness ==
    /\ call.kind = "sample"
    /\ call.temp_diff > 0
    /\ call.adjustment > max_fan - min_fan
    /\ call.new_fan = max_fan
    /\ call.ret = max_fan
    /\ min_fan < max_fan

\* C2: a call with an unavailable temperature returns the current
\* last_fan_speed and leaves last_fan_speed, temp_history, aggressive_mode and
\* stable_counter unchanged.
C2_UnavailableHolds ==
    [][call'.kind = "unavailable" =>
          /\ call'.ret = last_fan_speed
          /\ last_fan_speed' = last_fan_speed
          /\ temp_history' = temp_history
          /\ aggressive_mode' = aggressive_mode
          /\ stable_counter' = stable_counter]_vars

\* An unavailable reading arrived in gentle mode, with a running counter, a
\* full history and a raised fan speed.
C2_Witness ==
    /\ call.kind = "unavailable"
    /\ ~aggressive_mode
    /\ stable_counter > 0
    /\ Len(temp_history) = history_max_size
    /\ last_fan_speed > min_fan
    /\ call.ret = last_fan_speed

\* C3: hysteresis gate.  On an available sample the candidate new_fan becomes
\* last_fan_speed and the returned value if |new_fan - last_fan_speed| >= 2 or
\* |temp_diff| > 3; otherwise last_fan_speed is kept and the returned value is
\* the one the previous call returned.
C3_HysteresisGate ==
    [][call'.kind = "sample" =>
          IF \/ call'.new_fan - last_fan_speed >= 2
             \/ last_fan_speed - call'.new_fan >= 2
             \/ call'.temp_diff > 3 * Milli
             \/ call'.temp_diff < -3 * Milli
          THEN /\ last_fan_speed' = call'.new_fan
               /\ call'.ret = call'.new_fan
          ELSE /\ last_fan_speed' = last_fan_speed
               /\ call'.ret = last_fan_speed
               /\ call.kind # "none" => call'.ret = call.ret]_vars

\* A sample within 3 degrees of the target whose candidate differed from the
\* stored speed by 1 and was discarded.
C3_Witness ==
    /\ call.kind = "sample"
    /\ call.temp_diff <= 3 * Milli
    /\ call.temp_diff >= -3 * Milli
    /\ call.adjustment = 1
    /\ call.new_fan # call.ret
    /\ call.ret = last_fan_speed

\* The stable condition of a sample, stated on the history that holds it:
\* at least 4 readings, the latest within 3 degrees of the target, and no two
\* readings of the history 2 degrees or more apart.
StableSample(h, target) ==
    /\ Len(h) >= 4
    /\ h[Len(h)] - target * Milli < 3 * Milli
    /\ target * Milli - h[Len(h)] < 3 * Milli
    /\ \A i, j \in 1..Len(h) : h[i] - h[j] < 2 * Milli

\* C4: a stable sample increments the stability counter by exactly 1, in
\* either mode; the controller leaves aggressive mode exactly on the stable
\* sample that brings the counter to 6, and never leaves gentle mode on a
\* stable sample.
C4_StableCounting ==
    [][call'.kind = "sample" =>
          /\ StableSample(temp_history', target_temp) =>
                /\ stable_counter' = stable_counter + 1
                /\ aggressive_mode /\ stable_counter' = 6 => ~aggressive_mode'
                /\ ~aggressive_mode => ~aggressive_mode'
          /\ aggressive_mode /\ ~aggressive_mode' =>
                /\ StableSample(temp_history', target_temp)
                /\ stable_counter' = 6]_vars

\* Gentle mode with the counter past 6: it went on counting after the switch.
C4_Witness ==
    /\ call.kind = "sample"
    /\ ~aggressive_mode
    /\ stable_counter > stable_required
    /\ StableSample(temp_history, target_temp)

\* C5: a sample that is evaluated and not stable resets the stability counter
\* to 0 in either mode; a gentle controller turns aggressive on that sample
\* exactly when the reading is more than 5 degrees from the target or two
\* readings of the history are more than 4 degrees apart; an aggressive one
\* stays aggressive.
C5_UnstableReset ==
    [][(/\ call'.kind = "sample"
        /\ Len(temp_history') >= 4
        /\ ~StableSample(temp_history', target_temp)) =>
          /\ stable_counter' = 0
          /\ aggressive_mode => aggressive_mode'
          /\ ~aggressive_mode =>
                (aggressive_mode' <=>
                    \/ call'.temp_diff > 5 * Milli
                    \/ call'.temp_diff < -5 * Milli
                    \/ \E i, j \in 1..Len(temp_history') :
                          temp_history'[i] - temp_history'[j] > 4 * Milli)]_vars

\* Nine readings of 70 made the controller gentle, ten readings of 74 kept it
\* gentle, and one of 75.5 (more than 5 degrees off, variation 1.5) turned it
\* aggressive again.
C5_Witness ==
    /\ Len(received) = 20
    /\ \A i \in 1..9 : received[i] = 70000
    /\ \A i \in 10..19 : received[i] = 74000
    /\ received[20] = 75500
    /\ call.kind = "sample"
    /\ aggressive_mode
    /\ stable_counter = 0

\* C6: on each of the first three available samples aggressive_mode and
\* stable_counter keep their initial values.
C6_NoEvaluationBeforeFour ==
    Len(received) <= 3 => aggressive_mode /\ stable_counter = 0

\* Three equal readings at the target, which the stable condition would
\* accept, have been processed.
C6_Witness ==
    /\ call.kind = "sample"
    /\ Len(received) = 3
    /\ \A i \in 1..3 : received[i] = target_temp * Milli

\* C7: temp_history holds the most recent min(10, n) of the n available
\* samples received, in arrival order.
C7_SlidingWindow ==
    LET n == Len(received)
        k == IF n < 10 THEN n ELSE 10
    IN  /\ Len(temp_history) = k
        /\ \A i \in 1..k : temp_history[i] = received[n - k + i]

\* An 11th sample has arrived and the oldest reading, unlike any later one,
\* is gone from the history.
C7_Witness ==
    /\ Len(received) >= 11
    /\ \A i \in 2..Len(received) : received[i] # received[1]
    /\ \A i \in 1..Len(temp_history) : temp_history[i] # received[1]

\* r is an integer nearest to n / d (either neighbour on a tie), n >= 0, d > 0.
Nearest(r, n, d) == 2 * r * d - 2 * n <= d /\ 2 * n - 2 * r * d <= d

\* r is n / d truncated toward zero, n >= 0, d > 0.
Truncated(r, n, d) == r * d <= n /\ n < (r + 1) * d

\* C8, as amended: on a too-hot sample the base adjustment is
\* max(minStep, int(diff * overGain)), the product truncated toward zero, with
\* (overGain, minStep) = (2.5, 3) in aggressive and (1.5, 1) in gentle mode,
\* and the candidate is min(max_fan, last_fan_speed + adjustment).
C8_OverAdjustmentTruncates ==
    [][(call'.kind = "sample" /\ call'.temp_diff > 0) =>
          LET gain10  == IF aggressive_mode' THEN 25 ELSE 15
              minStep == IF aggressive_mode' THEN 3 ELSE 1
              sum     == last_fan_speed + call'.adjustment
          IN  /\ \E r \in 0..call'.base :
                    /\ Truncated(r, call'.temp_diff * gain10, 10 * Milli)
                    /\ call'.base = IF r > minStep THEN r ELSE minStep
              /\ call'.new_fan = IF sum < max_fan THEN sum ELSE max_fan]_vars

\* C8, as claimed: the base adjustment is max(minStep, round(diff * overGain)).
C8_OverAdjustmentRounds ==
    [][(call'.kind = "sample" /\ call'.temp_diff > 0) =>
          LET gain10  == IF aggressive_mode' THEN 25 ELSE 15
              minStep == IF aggressive_mode' THEN 3 ELSE 1
              sum     == last_fan_speed + call'.adjustment
          IN  /\ \E r \in 0..(call'.base + 1) :
                    /\ Nearest(r, call'.temp_diff * gain10, 10 * Milli)
                    /\ call'.base = IF r > minStep THEN r ELSE minStep
              /\ call'.new_fan = IF sum < max_fan THEN sum ELSE max_fan]_vars

\* A too-hot sample whose product diff * overGain has a fractional part of at
\* least one half and is not below the minimum step, with the candidate below
\* max_fan.
C8_Witness ==
    /\ call.kind = "sample"
    /\ call.temp_diff > 0
    /\ LET gain10 == IF aggressive_mode THEN 25 ELSE 15
       IN  /\ (call.temp_diff * gain10) % (10 * Milli) >= 5 * Milli
           /\ call.temp_diff * gain10 >= 10 * Milli * (IF aggressive_mode THEN 3 ELSE 1)
    /\ call.new_fan < max_fan

\* The latest available reading is strictly above the one 2 samples before it.
StillClimbing(log) == Len(log) >= 3 /\ log[Len(log)] > log[Len(log) - 2]

C10_UnderAdjustmentTruncates ==
    [][(call'.kind = "sample" /\ call'.temp_diff <= 0 /\ call'.base < 90) =>
          LET gain10  == IF aggressive_mode' THEN 15 ELSE 8
              minStep == IF aggressive_mode' THEN 3 ELSE 1
              factor  == IF aggressive_mode' THEN 7 ELSE 5
              rest    == last_fan_speed - call'.adjustment
          IN  /\ \E r \in 0..call'.base :
                    /\ Truncated(r, (-call'.temp_diff) * gain10, 10 * Milli)
                    /\ call'.base = IF r > minStep THEN r ELSE minStep
              /\ Truncated(call'.adjustment, call'.base * factor, 10)
              /\ call'.new_fan = IF rest > min_fan THEN rest ELSE min_fan]_vars

\* C10, as claimed: the base adjustment is max(minStep, round(|diff| *
\* underGain)), the adjustment is that times 0.7 (aggressive) or 0.5 (gentle),
\* read here with the product rounded to a nearest integer, and the candidate
\* is max(min_fan, last_fan_speed - adjustment).
C10_UnderAdjustmentRounds ==
    [][(call'.kind = "sample" /\ call'.temp_diff <= 0 /\ call'.base < 90) =>
          LET gain10  == IF aggressive_mode' THEN 15 ELSE 8
              minStep == IF aggressive_mode' THEN 3 ELSE 1
              factor  == IF aggressive_mode' THEN 7 ELSE 5
              rest    == last_fan_speed - call'.adjustment
          IN  /\ \E r \in 0..(call'.base + 1) :
                    /\ Nearest(r, (-call'.temp_diff) * gain10, 10 * Milli)
                    /\ call'.base = IF r > minStep THEN r ELSE minStep
              /\ Nearest(call'.adjustment, call'.base * factor, 10)
              /\ call'.new_fan = IF rest > min_fan THEN rest ELSE min_fan]_vars

\* A sample below target whose product |diff| * underGain has a fractional
\* part of at least one half and is not below the minimum step, with the
\* candidate above min_fan.
C10_Witness ==
    /\ call.kind = "sample"
    /\ call.temp_diff < 0
    /\ LET gain10 == IF aggressive_mode THEN 15 ELSE 8
       IN  /\ ((-call.temp_diff) * gain10) % (10 * Milli) >= 5 * Milli
           /\ (-call.temp_diff) * gain10 >= 10 * Milli * (IF aggressive_mode THEN 3 ELSE 1)
    /\ call.new_fan > min_fan

\* The readings fed so far alternate between a and b, whichever came first.
AlternatingLog(log, a, b) ==
    /\ \A i \in 1..Len(log) : log[i] \in {a, b}
    /\ \A i \in 2..Len(log) : log[i] # log[i - 1]

\* The controller of the spec's scenarios: target 70, fan bounds 30..100.
DefaultController == target_temp = 70 /\ min_fan = 30 /\ max_fan = 100

\* C11: readings alternating between 68.0 and 72.0 span 4.0 degrees, which is
\* not below stable_threshold: no sample is stable, the counter stays 0 and
\* the controller never leaves aggressive mode.  Readings alternating between
\* 69.5 and 70.5 are stable from the fourth sample on; the controller turns
\* gentle exactly once, on the ninth sample, the sixth stable one.
C11_AlternatingModeSwitch ==
    DefaultController =>
        /\ AlternatingLog(received, 68000, 72000) =>
              aggressive_mode /\ stable_counter = 0
        /\ AlternatingLog(received, 69500, 70500) =>
              /\ aggressive_mode <=> Len(received) < 9
              /\ stable_counter = Max2(0, Len(received) - 3)

\* C11, as claimed: readings alternating between 68.0 and 72.0 turn the
\* controller gentle on the sixth stable sample counted from the fourth
\* reading, the ninth sample, and it stays gentle.
C11_AlternatingTurnsGentle ==
    (DefaultController /\ AlternatingLog(received, 68000, 72000)) =>
        (aggressive_mode <=> Len(received) < 9)

\* Ten samples alternating between 68.0 and 72.0, still aggressive.
C11_Witness ==
    /\ DefaultController
    /\ AlternatingLog(received, 68000, 72000)
    /\ Len(received) >= 10
    /\ call.kind = "sample"
    /\ aggressive_mode

\* Every reading fed so far is the same one, above the target.
ConstantHot(log, target) ==
    /\ Len(log) >= 1
    /\ \A i \in 1..Len(log) : log[i] = log[1]
    /\ log[1] > target * Milli

\* The call left the speed where it was: candidate not committed, or at max.
Settled == call.kind = "sample" /\ (call.ret # call.new_fan \/ call.ret = max_fan)

\* C12: a controller with min_fan <= max_fan fed one temperature above target
\* at every sample returns speeds that never decrease and never exceed
\* max_fan, and once a sample leaves the speed unchanged every later one does
\* (the sequence is constant from there on); with target 70, bounds 30..100
\* and 80.0 the speeds are 55, 80, 100, 100, ...
C12_ConstantHotRamps ==
    [][(call'.kind = "sample" /\ ConstantHot(received', target_temp)
            /\ min_fan <= max_fan) =>
          /\ call'.ret >= last_fan_speed
          /\ call'.ret <= max_fan
          /\ Settled => call'.ret = call.ret
          /\ (DefaultController /\ received'[1] = 80000) =>
                call'.ret = Min2(100, 30 + 25 * Len(received'))]_vars

\* The fifth sample of 80.0 in a row, the speed at max_fan since the third.
C12_Witness ==
    /\ DefaultController
    /\ ConstantHot(received, target_temp)
    /\ received[1] = 80000
    /\ Len(received) >= 5
    /\ Settled
    /\ call.ret = 100

(***************************************************************************)
(* Properties of FanCurve.                                                 *)
(***************************************************************************)
\* The fan speeds do not fall along the sorted points.
NonDecreasingFans(points) ==
    \A i \in 1..(Len(points) - 1) : points[i].f <= points[i + 1].f

\* The latest operation asked a curve about a reading.
Asked == curve_call.op = "get_fan_speed" /\ curve_call.temperature # None

\* The speed returned to the latest call lies between the speeds the same
\* curve returns for lower and for higher readings.
MonotoneAtCall ==
    \A t \in Readings :
        /\ t >= curve_call.temperature =>
              SpeedLe(curve_call.ret, get_fan_speed(curve_call.points, t))
        /\ t <= curve_call.temperature =>
              SpeedLe(get_fan_speed(curve_call.points, t), curve_call.ret)

C14_ClampsToEndPoints ==
    Asked =>
        LET points == curve_call.points
            n      == Len(points)
        IN  /\ curve_call.temperature <= points[1].t * Milli =>
                  SpeedIs(curve_call.ret, points[1].f, 1)
            /\ curve_call.temperature >= points[n].t * Milli =>
                  SpeedIs(curve_call.ret, points[n].f, 1)

\* f1 + (t - t1) / (t2 - t1) * (f2 - f1) for the points i and i + 1.
Interpolated(points, i, t) ==
    Speed("interpolated",
          points[i].f * (points[i + 1].t - points[i].t) * Milli
             + (t - points[i].t * Milli) * (points[i + 1].f - points[i].f),
          (points[i + 1].t - points[i].t) * Milli)

\* C15, as claimed: for a reading strictly between the lowest and the highest
\* point temperature the speed is f1 + (t - t1) / (t2 - t1) * (f2 - f1) for
\* an adjacent pair with t1 <= t <= t2, and at the temperature of a point
\* that is neither the first nor the last it is that point's fan speed.
C15_InterpolatesBetweenPoints ==
    LET points == curve_call.points
        n      == Len(points)
        t      == curve_call.temperature
    IN  (Asked /\ points[1].t * Milli < t /\ t < points[n].t * Milli) =>
            /\ \E i \in 1..(n - 1) :
                  /\ points[i].t * Milli <= t
                  /\ t <= points[i + 1].t * Milli
                  /\ points[i].t < points[i + 1].t
                  /\ SpeedLe(curve_call.ret, Interpolated(points, i, t))
                  /\ SpeedLe(Interpolated(points, i, t), curve_call.ret)
            /\ \A i \in 2..(n - 1) :
                  points[i].t * Milli = t =>
                      SpeedIs(curve_call.ret, points[i].f, 1)

\* The points a loaded file holds: data.get("points", []).
FilePoints(file) == IF "points" \in file.keys THEN file.points ELSE <<>>

\* C16, as claimed: FanCurve called with fewer than 2 points, and load_curve
\* reading a file with fewer than 2 points, yield no curve.
C16_FewPointsRejected ==
    /\ (curve_call.op = "FanCurve" /\ Len(curve_call.points) < 2) =>
          curve_call.ret = NoCurve
    /\ (curve_call.op = "load_curve" /\ curve_call.file.kind = "json"
            /\ Len(FilePoints(curve_call.file)) < 2) =>
          curve_call.ret = NoCurve

\* C18, as claimed: the points of every FanCurve, however constructed, are
\* sorted ascending by temperature with no temperature repeated.
C18_SortedAndUnique ==
    current_curve # NoCurve =>
        \A i \in 1..(Len(current_curve.points) - 1) :
            current_curve.points[i].t < current_curve.points[i + 1].t

\* C19: load_curve right after save_curve(c) returns a curve with the name
\* of c and the (temp, fan) pairs of c in the same order.
C19_SaveLoadRoundTrip ==
    [][(curve_call.op = "save_curve" /\ curve_call'.op = "load_curve") =>
          /\ curve_call'.ret # NoCurve
          /\ curve_call'.ret.name = curve_call.curve.name
          /\ Pairs(curve_call'.ret.points) = Pairs(curve_call.curve.points)]_vars

\* A curve of this run's name, constructed from points given out of order,
\* loaded from the file save_curve wrote for it.
C19_Witness ==
    /\ curve_call.op = "load_curve"
    /\ curve_call.ret # NoCurve
    /\ curve_call.ret.name = "Quiet"
    /\ curve_call.file = save_curve(curve_call.ret)
    /\ Len(given.points) >= 2
    /\ Pairs(given.points) # Pairs(curve_call.ret.points)
    /\ Pairs(SortByTemp(given.points)) = Pairs(curve_call.ret.points)

(***************************************************************************)
(* temperature_control called with any bounds.                             *)
(***************************************************************************)
\* apply_temp_limit(adl, target, min_fan, max_fan) and temperature_control
\* take the bounds as they come: min_fan above max_fan, bounds outside 0..100.
UncheckedSessions ==
    { Free(70, 80, 40, {60000, 80000}),
      Free(70, 80, 40, {69500, 70500}),
      Free(70, -10, 120, {60000, 80000}) }

InitUnchecked ==
    /\ \E s \in UncheckedSessions :
          /\ Constructed(s.target, s.lo, s.hi)
          /\ env = [sensor |-> s.sensor, samples |-> s.samples,
                    changes |-> s.changes]
    /\ CurveIdle
    /\ TrayIdle

SpecUnchecked == InitUnchecked /\ [][Next]_vars

\* C17, as claimed: no closure with min_fan above max_fan or with a bound
\* outside 0..100 gets to process a sample.
C17_BoundsChecked ==
    call.kind = "sample" =>
        /\ min_fan <= max_fan
        /\ 0 <= min_fan
        /\ max_fan <= 100

\* The points are in non-decreasing order of temperature.
SortedByTemp(points) ==
    \A i \in 1..(Len(points) - 1) : points[i].t <= points[i + 1].t

\* C23: on a non-empty point list sorted by temperature, repeated
\* temperatures and single points included, FanCurve.get_fan_speed returns
\* through a clamp or through the interpolation; it never divides by
\* t2 - t1 = 0 and never reaches the fallback value 50.
C23_TotalOnSortedCurves ==
    (Asked /\ curve_call.points # <<>> /\ SortedByTemp(curve_call.points)) =>
        curve_call.ret.branch \in {"low", "high", "interpolated"}

\* A curve with a repeated temperature was asked about that temperature,
\* strictly inside its range, and interpolated.
C23_Witness ==
    /\ Asked
    /\ \E i \in 1..(Len(curve_call.points) - 1) :
          /\ curve_call.points[i].t = curve_call.points[i + 1].t
          /\ curve_call.points[i].t * Milli = curve_call.temperature
    /\ curve_call.ret.branch = "interpolated"

(***************************************************************************)
(* Further properties of the temperature controller.                       *)
(***************************************************************************)
\* A call with a reading has just been made.
SampleStep == call'.kind = "sample" /\ received' # received

\* C24: within one call the mode transition comes before the adjustment: on
\* a sample that switches the mode, the gain, the minimum step and the
\* decrease factor are those of the mode after the stability evaluation.
C24_NewModeAdjusts ==
    [][(SampleStep /\ aggressive_mode' # aggressive_mode) =>
          LET gentle  == aggressive_mode
              diff    == call'.temp_diff
              size    == IF diff > 0 THEN diff ELSE -diff
              gain10  == IF diff > 0 THEN (IF gentle THEN 15 ELSE 25)
                         ELSE (IF gentle THEN 8 ELSE 15)
              minStep == IF gentle THEN 1 ELSE 3
              factor  == IF gentle THEN 5 ELSE 7
          IN  /\ \/ /\ call'.base = minStep
                    /\ size * gain10 < 10 * Milli * (minStep + 1)
                 \/ /\ call'.base > minStep
                    /\ Truncated(call'.base, size * gain10, 10 * Milli)
              /\ diff <= 0 =>
                    Truncated(call'.adjustment, factor * call'.base, 10)
       ]_vars

\* The 9th sample has just turned the controller gentle, above the target,
\* and was adjusted with the gentle gain: int(1.5 * 1.5) = 2, not 3.
C24_Witness ==
    /\ ~aggressive_mode
    /\ Len(received) = 9
    /\ call.kind = "sample"
    /\ call.temp_diff = 1500
    /\ call.base = 2

\* C25: with min_fan <= max_fan, a call with current_temp > target_temp
\* never returns less than the speed returned before, and a call with
\* current_temp <= target_temp never returns more, in both modes.
C25_ChangeFollowsError ==
    [][(SampleStep /\ min_fan <= max_fan) =>
          IF call'.current_temp > target_temp * Milli
          THEN call'.ret >= last_fan_speed
          ELSE call'.ret <= last_fan_speed]_vars

\* A gentle controller has just lowered its speed below the target.
C25_Witness ==
    /\ ~aggressive_mode
    /\ call.kind = "sample"
    /\ call.temp_diff < 0
    /\ call.ret = call.new_fan
    /\ call.adjustment >= 1
    /\ min_fan < call.ret

\* C26: a controller is not in gentle mode before its 9th available sample:
\* the stability counter counts evaluations, the first of which is at the
\* 4th available sample, and gentle mode needs 6 of them; unavailable
\* samples count for neither.
C26_GentleNotBeforeNinth ==
    /\ ~aggressive_mode => Len(received) >= 9
    /\ stable_counter > 0 => Len(received) >= 3 + stable_counter

\* Gentle at the 9th available sample, with an unavailable one since.
C26_Witness ==
    /\ ~aggressive_mode
    /\ Len(received) = 9
    /\ stable_counter = stable_required
    /\ call.kind = "unavailable"

\* C27, as claimed: whenever the controller is in gentle mode after a
\* sample's stability evaluation and target_temp - 3 <= current_temp <=
\* target_temp, the returned speed equals the one returned before.
C27_GentleDeadBand ==
    [][(SampleStep /\ ~aggressive_mode'
          /\ (target_temp - 3) * Milli <= call'.current_temp
          /\ call'.current_temp <= target_temp * Milli) =>
             call'.ret = last_fan_speed]_vars

\* C28: with min_fan <= max_fan, every available sample more than 3 degrees
\* above the target returns max_fan or a speed strictly above the one
\* returned before; so under sustained overheating the speed rises on every
\* sample, is at max_fan after finitely many, and stays there.
C28_OverheatingRaises ==
    [][(SampleStep /\ min_fan <= max_fan
          /\ call'.current_temp > (target_temp + 3) * Milli) =>
             /\ call'.ret > last_fan_speed \/ call'.ret = max_fan
             /\ call'.ret <= max_fan]_vars

\* Under overheating the speed has come to max_fan by a last step of 1.
C28_Witness ==
    /\ call.kind = "sample"
    /\ call.temp_diff > 3 * Milli
    /\ call.ret = max_fan
    /\ call.new_fan = max_fan
    /\ min_fan < max_fan
    /\ Len(received) >= 2

(***************************************************************************)
(* Properties of the tray monitor.                                         *)
(***************************************************************************)
\* C20, as claimed: curve_mode and temp_limit_mode are never both true, and
\* no polling iteration hands its reading to both the curve and the
\* temperature controller.
C20_ModesExclusive ==
    /\ ~(curve_mode /\ temp_limit_mode)
    /\ fed # {"current_curve", "temp_controller"}

\* A polling step that issues set_fan_speed with the speed computed from the
\* curve or by the controller.
PollWrites ==
    /\ pc["update_thread"] \in {"curve_set", "limit_set"}
    /\ pc'["update_thread"] # pc["update_thread"]
    /\ tray_new_fan # fan_speed

\* C29: once reset_to_auto or a set_speed_N has returned, and until a mode is
\* switched on again, no step of update_icon issues a set_fan_speed computed
\* from the curve or by the temperature controller, whatever the
\* interleaving with an iteration already in progress.
C29_OverrideIsFinal == [][overridden => ~PollWrites]_vars

\* The controller as temperature_control leaves it: empty history,
\* aggressive mode, counter 0, last speed min_fan, no sample processed.
FreshController ==
    /\ temp_history = <<>>
    /\ aggressive_mode
    /\ stable_counter = 0
    /\ last_fan_speed = min_fan
    /\ received = <<>>

\* C21: in the tray monitor, whenever temperature-limit mode is switched on
\* and whenever the target is reconfigured, the controller that will process
\* the next sample is a freshly created one, with nothing kept from an
\* earlier session.
C21_SessionStartsFresh ==
    [][ /\ (~temp_limit_mode /\ temp_limit_mode') => FreshController'
        /\ (pc["main_thread"] = "temp_dialog"
              /\ pc'["main_thread"] = "temp_ask") => FreshController' ]_vars

(***************************************************************************)
(* Properties of the polling loops.                                        *)
(***************************************************************************)
\* A step of update_icon that tests a mode with no reading at hand.
TrayTickWithoutReading ==
    /\ pc["update_thread"] \in {"curve", "limit"}
    /\ pc'["update_thread"] # pc["update_thread"]
    /\ temp = None

\* An iteration of apply_fan_curve or apply_temp_limit that gets no reading.
CliTickWithoutReading ==
    /\ pc["main_thread"] \in {"apply_fan_curve", "apply_temp_limit"}
    /\ temp' = None

\* C22: on a tick where get_temperature returns None, none of the three
\* polling loops hands the reading to the curve or to the controller, none
\* writes a fan speed, the controller state is unchanged, and the loop goes
\* on to its next statement.
C22_UnavailableHoldsSpeed ==
    [][ (TrayTickWithoutReading \/ CliTickWithoutReading) =>
           /\ fed' = {}
           /\ hw_fan' = hw_fan
           /\ UNCHANGED ctlVars
           /\ pc'["update_thread"] \in {"limit", "read", "none"}
           /\ pc'["main_thread"] = pc["main_thread"] ]_vars

\* An iteration of update_icon has ended without a reading while
\* temperature-limit mode is on and the controller holds a history.
C22_Witness ==
    /\ pc = [update_thread |-> "read", icon_thread |-> "idle",
             main_thread |-> "idle"]
    /\ temp = None
    /\ fed = {}
    /\ temp_limit_mode
    /\ received # <<>>
====
